---- MODULE Spec2Model ----
(***************************************************************************)
(* Camera driver registry, selection and lifecycle of                      *)
(* camera/camera_driver.c, and the GLFW/OpenGL video driver of gl.c.       *)
(*                                                                         *)
(* The program is single threaded: every function of the driver layer runs *)
(* to completion on the caller's thread, so each function is one action.   *)
(* The calls a function makes to the outside (backend operations of the    *)
(* selected driver, notification callbacks, the message queue) are         *)
(* recorded, in call order, in `calls`; `op` names the function that ran   *)
(* last and `ret` is what it returned.                                     *)
(***************************************************************************)
EXTENDS Integers, Sequences, FiniteSets, TLC

(* Number of handles the backends may hand out in one run. *)
MaxHandles == 3

(* A null pointer to a driver descriptor. *)
NULL == "NULL"

(* A null camera handle (driver.camera_data = NULL); handles are 1, 2, ... *)
NULL_DATA == 0

(* The preprocessor conditions that guard the entries of camera_drivers[]. *)
Backends == {"HAVE_V4L2", "EMSCRIPTEN", "ANDROID", "APPLE"}

VARIABLES
    have,                  \* the conditions that hold in this build
    camera_driver_setting, \* g_settings.camera.driver
    camera_allow,          \* g_settings.camera.allow
    cb_initialized,        \* g_extern.system.camera_callback.initialized # NULL
    cb_deinitialized,      \* g_extern.system.camera_callback.deinitialized # NULL
    camera,                \* driver.camera: a descriptor of the registry, or NULL
    camera_data,           \* driver.camera_data: the live handle, or NULL_DATA
    camera_active,         \* driver.camera_active
    failed,                \* rarch_fail() was called: the process is gone
    n_alloc,               \* handles handed out by backend init so far
    freed,                 \* handles passed to a backend free
    lifecycle,             \* "Uninitialized", "InitFailed" or "Active"
    op,                    \* the function that ran last
    calls,                 \* the outside calls it made, in order
    ret                    \* its return value (FALSE for a void function)

VARIABLES
    camera_device,         \* g_settings.camera.device ("" when not configured)
    camera_width,          \* g_settings.camera.width  (0 when not configured)
    camera_height,         \* g_settings.camera.height (0 when not configured)
    cb_caps,               \* g_extern.system.camera_callback.caps
    cb_width,              \* g_extern.system.camera_callback.width
    cb_height,             \* g_extern.system.camera_callback.height
    init_args,             \* the arguments of the latest backend init call
    pending_initialized    \* "initialized" was sent and no "deinitialized" since

(* The state of gl.c. *)
VARIABLES
    have_cg,               \* HAVE_CG is defined in this build
    video_force_aspect,    \* video->force_aspect, as the caller passes it to gl_init
    video_smooth,          \* video->smooth
    video_vsync,           \* video->vsync
    keep_aspect,           \* static bool keep_aspect
    gl_state,              \* "none", "ready", "destroyed" or "failed" (gl_init returned NULL)
    gl,                    \* the gl_t of the handle: vsync, tex_filter
    held,                  \* the resources held, in the order they were acquired
    swap_interval,         \* the interval last passed to glfwSwapInterval
    viewport,              \* the arguments of the last glViewport call
    surface,               \* the width and height last passed to resize
    frames,                \* show_fps: static int frames
    tv,                    \* show_fps: static struct timeval tv
    now,                   \* the time gettimeofday returns
    title,                 \* the FPS sample last passed to glfwSetWindowTitle
    gl_op,                 \* the function of gl.c that ran last
    gl_calls,              \* the library calls it made that acquire or release
    n_created,             \* handles gl_init has returned so far
    nonblock,              \* the latest gl_set_nonblock_state argument on this handle
    submitted,             \* a frame was submitted to this handle
    destroys               \* the times gl_free was called on this handle

glconfig == <<have_cg, video_force_aspect, video_smooth, video_vsync>>

glvars == <<glconfig, keep_aspect, gl_state, gl, held, swap_interval, viewport, surface,
            frames, tv, now, title, gl_op, gl_calls, n_created, nonblock, submitted,
            destroys>>

config == <<have, camera_driver_setting, camera_allow, cb_initialized, cb_deinitialized,
            camera_device, camera_width, camera_height, cb_caps, cb_width, cb_height>>

camvars == <<config, camera, camera_data, camera_active, failed, n_alloc, freed,
             lifecycle, op, calls, ret, init_args, pending_initialized>>

vars == <<camvars, glvars>>

(***************************************************************************)
(* Driver descriptors.  The descriptors themselves are defined by the      *)
(* backends; each implements the whole capability contract.                *)
(***************************************************************************)
camera_driver_t(sym) ==
    [ident |-> CASE sym = "camera_v4l2"    -> "video4linux2"
                 [] sym = "camera_rwebcam" -> "rwebcam"
                 [] sym = "camera_android" -> "android"
                 [] sym = "camera_apple"   -> "avfoundation"
                 [] sym = "camera_null"    -> "null",
     init |-> TRUE, free |-> TRUE, start |-> TRUE, stop |-> TRUE, poll |-> TRUE]

(* The values g_settings.camera.driver is drawn from: every identifier,    *)
(* the empty string and a name no driver has.                              *)
DriverNames == {"video4linux2", "rwebcam", "android", "avfoundation", "null", "", "bogus"}

Opt(cond, sym) == IF cond \in have THEN <<sym>> ELSE <<>>

(* A registry that lacks the null driver. *)
camera_drivers_without_null ==
    Opt("HAVE_V4L2", "camera_v4l2") \o Opt("EMSCRIPTEN", "camera_rwebcam")
        \o Opt("ANDROID", "camera_android") \o Opt("APPLE", "camera_apple")
        \o <<NULL>>

(* static const camera_driver_t *camera_drivers[] *)
camera_drivers ==
    Opt("HAVE_V4L2", "camera_v4l2") \o Opt("EMSCRIPTEN", "camera_rwebcam")
        \o Opt("ANDROID", "camera_android") \o Opt("APPLE", "camera_apple")
        \o <<"camera_null", NULL>>

(* C arrays are indexed from 0, sequences from 1. *)
camera_driver_find_handle(index) == camera_drivers[index + 1]

camera_driver_find_ident(index) ==
    LET drv == camera_drivers[index + 1]
    IN  IF drv = NULL THEN NULL ELSE camera_driver_t(drv).ident

(* Linear scan of the registry of a kind for a name: the index of the      *)
(* first entry with that identifier, -1 when the sentinel is reached.      *)
RECURSIVE find_driver_scan(_, _)
find_driver_scan(i, drv) ==
    IF camera_driver_find_handle(i) = NULL THEN -1
    ELSE IF camera_driver_find_ident(i) = drv THEN i
    ELSE find_driver_scan(i + 1, drv)

find_driver_index(label, drv) ==
    IF label = "camera_driver" THEN find_driver_scan(0, drv) ELSE -1

(* One recorded outside call: the function called, the driver it belongs   *)
(* to (NULL for a callback or the message queue), the handle passed to or  *)
(* returned by it, and driver.camera_data as it stood during the call.     *)
Call(fn, drv, data, seen) == [fn |-> fn, drv |-> drv, data |-> data, seen |-> seen]

Fns(s) == {s[i].fn : i \in 1..Len(s)}

(***************************************************************************)
(* find_camera_driver: the value it leaves in driver.camera.               *)
(***************************************************************************)
(* A selection that falls back to the last registry entry. *)
find_camera_driver_last ==
    LET i == find_driver_index("camera_driver", camera_driver_setting)
    IN  IF i >= 0 THEN camera_driver_find_handle(i)
        ELSE camera_driver_find_handle(Len(camera_drivers) - 2)

find_camera_driver ==
    LET i == find_driver_index("camera_driver", camera_driver_setting)
    IN  IF i >= 0 THEN camera_driver_find_handle(i)
        ELSE camera_driver_find_handle(0)

(* No backend init call was made yet. *)
NoArgs == [device |-> NULL, caps |-> 0, width |-> 0, height |-> 0]

(* The arguments init_camera passes to the backend init. *)
(* An init that lets the capability default win over the configured size. *)
init_camera_args_default_first ==
    [device |-> IF camera_device # "" THEN camera_device ELSE NULL,
     caps   |-> cb_caps,
     width  |-> IF cb_width # 0 THEN cb_width ELSE camera_width,
     height |-> IF cb_height # 0 THEN cb_height ELSE camera_height]

init_camera_args ==
    [device |-> IF camera_device # "" THEN camera_device ELSE NULL,
     caps   |-> cb_caps,
     width  |-> IF camera_width # 0 THEN camera_width ELSE cb_width,
     height |-> IF camera_height # 0 THEN camera_height ELSE cb_height]

(* A window title: the plain one gl_init sets, or an FPS sample. *)
Title(text, fps, count) == [text |-> text, fps |-> fps, frames |-> count]

NoFps == [num |-> 0, den |-> 1]

(* The static state of gl.c at program start: no handle, nothing held. *)
GlStart ==
    /\ keep_aspect = TRUE
    /\ gl_state = "none"
    /\ gl = [vsync |-> FALSE, tex_filter |-> "GL_NEAREST"]
    /\ held = <<>>
    /\ swap_interval = 0
    /\ viewport = <<0, 0, 0, 0>>
    /\ surface = <<0, 0>>
    /\ frames = 0
    /\ tv = [tv_sec |-> 0, tv_usec |-> 0]
    /\ now = [tv_sec |-> 0, tv_usec |-> 0]
    /\ title = Title("", NoFps, 0)
    /\ gl_op = "none"
    /\ gl_calls = <<>>
    /\ n_created = 0
    /\ nonblock = "none"
    /\ submitted = FALSE
    /\ destroys = 0

(* The video driver left alone: one build and one video configuration. *)
GlIdle ==
    /\ have_cg = FALSE
    /\ video_force_aspect = TRUE
    /\ video_smooth = FALSE
    /\ video_vsync = TRUE
    /\ GlStart

(* The camera state at program start: no driver selected, no handle. *)
CameraStart ==
    /\ camera = NULL
    /\ camera_data = NULL_DATA
    /\ failed = FALSE
    /\ n_alloc = 0
    /\ freed = {}
    /\ lifecycle = "Uninitialized"
    /\ op = "none"
    /\ calls = <<>>
    /\ ret = FALSE
    /\ init_args = NoArgs
    /\ pending_initialized = FALSE

(* Start-up: any build, any configured driver name, permission flag and    *)
(* callbacks; the device and size settings are left unconfigured.          *)
Init ==
    /\ have \in SUBSET Backends
    /\ camera_driver_setting \in DriverNames
    /\ camera_allow \in BOOLEAN
    /\ cb_initialized \in BOOLEAN
    /\ cb_deinitialized \in BOOLEAN
    /\ camera_device = ""
    /\ camera_width = 0
    /\ camera_height = 0
    /\ cb_caps = 1
    /\ cb_width = 640
    /\ cb_height = 480
    /\ camera_active \in BOOLEAN
    /\ CameraStart
    /\ GlIdle

(* find_camera_driver() called on its own (driver selection at start-up). *)
find_camera_driver_op ==
    /\ ~failed
    /\ op' = "find"
    /\ calls' = <<>>
    /\ ret' = FALSE
    /\ camera' = find_camera_driver
    /\ failed' = (find_camera_driver = NULL)
    /\ UNCHANGED <<glvars, config, camera_data, camera_active, n_alloc, freed, lifecycle,
                   init_args, pending_initialized>>

(***************************************************************************)
(* init_camera                                                             *)
(***************************************************************************)
(* driver.camera_active after the backend init returned h: a failed init   *)
(* marks the camera inactive.                                              *)
(* An init that leaves the camera marked active when the backend failed. *)
camera_active_kept(h) == camera_active

camera_active_after_init(h) == IF h = NULL_DATA THEN FALSE ELSE camera_active

(* The call of the "initialized" callback that ends init_camera, after the *)
(* backend init returned h.                                                *)
(* An init whose test of the backend result is inverted. *)
initialized_calls_when_failed(h) ==
    IF cb_initialized /\ h = NULL_DATA
    THEN <<Call("initialized", NULL, NULL_DATA, h)>>
    ELSE <<>>

initialized_calls(h) ==
    IF cb_initialized
    THEN <<Call("initialized", NULL, NULL_DATA, h)>>
    ELSE <<>>

(* What init_camera does once the double-init guard has let it through:    *)
(* select the driver, call its init, mark the camera inactive on failure,  *)
(* and call the "initialized" callback when one is registered.             *)
init_camera_body ==
    /\ camera' = find_camera_driver
    /\ IF find_camera_driver = NULL
       THEN \* rarch_fail(1, "find_camera_driver()")
            /\ failed' = TRUE
            /\ calls' = <<>>
            /\ UNCHANGED <<camera_data, camera_active, n_alloc, lifecycle,
                           init_args, pending_initialized>>
       ELSE \E ok \in BOOLEAN :
            /\ ok => n_alloc < MaxHandles
            /\ LET h == IF ok THEN n_alloc + 1 ELSE NULL_DATA
               IN  /\ camera_data' = h
                   /\ n_alloc' = IF ok THEN n_alloc + 1 ELSE n_alloc
                   /\ camera_active' = camera_active_after_init(h)
                   /\ lifecycle' = IF h = NULL_DATA THEN "InitFailed" ELSE "Active"
                   /\ init_args' = init_camera_args
                   /\ calls' = <<Call("init", find_camera_driver, h, NULL_DATA)>>
                        \o initialized_calls(h)
                   /\ pending_initialized' =
                         (pending_initialized \/ "initialized" \in Fns(initialized_calls(h)))
            /\ failed' = FALSE

(* init_camera without the guard against a second initialization. *)
init_camera_unguarded ==
    /\ ~failed
    /\ op' = "init"
    /\ ret' = FALSE
    /\ init_camera_body
    /\ UNCHANGED <<glvars, config, freed>>

init_camera ==
    /\ ~failed
    /\ op' = "init"
    /\ ret' = FALSE
    /\ IF camera_data # NULL_DATA
       THEN \* Resource leaks will follow if camera is initialized twice.
            /\ calls' = <<>>
            /\ UNCHANGED <<camera, camera_data, camera_active, failed, n_alloc, lifecycle,
                           init_args, pending_initialized>>
       ELSE init_camera_body
    /\ UNCHANGED <<glvars, config, freed>>

(***************************************************************************)
(* uninit_camera                                                           *)
(***************************************************************************)
(* uninit_camera that frees the handle before it notifies. *)
uninit_camera_free_first ==
    /\ ~failed
    /\ op' = "uninit"
    /\ ret' = FALSE
    /\ IF camera_data # NULL_DATA /\ camera # NULL
       THEN /\ calls' =
                   (IF camera_driver_t(camera).free
                    THEN <<Call("free", camera, camera_data, camera_data)>>
                    ELSE <<>>)
                \o (IF cb_deinitialized
                    THEN <<Call("deinitialized", NULL, NULL_DATA, camera_data)>>
                    ELSE <<>>)
            /\ freed' = IF camera_driver_t(camera).free
                        THEN freed \cup {camera_data} ELSE freed
       ELSE /\ calls' = <<>>
            /\ freed' = freed
    /\ camera_data' = NULL_DATA
    /\ lifecycle' = "Uninitialized"
    /\ pending_initialized' =
          (pending_initialized /\ "deinitialized" \notin Fns(calls'))
    /\ UNCHANGED <<glvars, config, camera, camera_active, failed, n_alloc, init_args>>

(* uninit_camera that does not clear driver.camera_data. *)
uninit_camera_keeps_handle ==
    /\ ~failed
    /\ op' = "uninit"
    /\ ret' = FALSE
    /\ IF camera_data # NULL_DATA /\ camera # NULL
       THEN /\ calls' =
                   (IF cb_deinitialized
                    THEN <<Call("deinitialized", NULL, NULL_DATA, camera_data)>>
                    ELSE <<>>)
                \o (IF camera_driver_t(camera).free
                    THEN <<Call("free", camera, camera_data, camera_data)>>
                    ELSE <<>>)
            /\ freed' = IF camera_driver_t(camera).free
                        THEN freed \cup {camera_data} ELSE freed
       ELSE /\ calls' = <<>>
            /\ freed' = freed
    /\ lifecycle' = "Uninitialized"
    /\ pending_initialized' =
          (pending_initialized /\ "deinitialized" \notin Fns(calls'))
    /\ UNCHANGED <<glvars, config, camera, camera_data, camera_active, failed, n_alloc,
                   init_args>>

(* uninit_camera that notifies whether or not a handle is live. *)
uninit_camera_always_notifies ==
    /\ ~failed
    /\ op' = "uninit"
    /\ ret' = FALSE
    /\ calls' =
            (IF cb_deinitialized
             THEN <<Call("deinitialized", NULL, NULL_DATA, camera_data)>>
             ELSE <<>>)
         \o (IF camera_data # NULL_DATA /\ camera # NULL /\ camera_driver_t(camera).free
             THEN <<Call("free", camera, camera_data, camera_data)>>
             ELSE <<>>)
    /\ freed' = IF camera_data # NULL_DATA /\ camera # NULL /\ camera_driver_t(camera).free
                THEN freed \cup {camera_data} ELSE freed
    /\ camera_data' = NULL_DATA
    /\ lifecycle' = "Uninitialized"
    /\ pending_initialized' =
          (pending_initialized /\ "deinitialized" \notin Fns(calls'))
    /\ UNCHANGED <<glvars, config, camera, camera_active, failed, n_alloc, init_args>>

uninit_camera ==
    /\ ~failed
    /\ op' = "uninit"
    /\ ret' = FALSE
    /\ IF camera_data # NULL_DATA /\ camera # NULL
       THEN /\ calls' =
                   (IF cb_deinitialized
                    THEN <<Call("deinitialized", NULL, NULL_DATA, camera_data)>>
                    ELSE <<>>)
                \o (IF camera_driver_t(camera).free
                    THEN <<Call("free", camera, camera_data, camera_data)>>
                    ELSE <<>>)
            /\ freed' = IF camera_driver_t(camera).free
                        THEN freed \cup {camera_data} ELSE freed
       ELSE /\ calls' = <<>>
            /\ freed' = freed
    /\ camera_data' = NULL_DATA
    /\ lifecycle' = "Uninitialized"
    /\ pending_initialized' =
          (pending_initialized /\ "deinitialized" \notin Fns(calls'))
    /\ UNCHANGED <<glvars, config, camera, camera_active, failed, n_alloc, init_args>>

(***************************************************************************)
(* driver_camera_start / driver_camera_stop / driver_camera_poll           *)
(***************************************************************************)
(* The message driver_camera_start pushes to g_extern.msg_queue. *)
Disabled_msg == "msg_queue_push: Camera is explicitly disabled."

Unchanged_by_dispatch ==
    UNCHANGED <<glvars, config, camera, camera_data, camera_active, failed, n_alloc, freed,
                lifecycle, init_args, pending_initialized>>

(* driver_camera_start that does not look at the permission flag. *)
driver_camera_start_ignores_allow ==
    /\ ~failed
    /\ op' = "start"
    /\ IF camera # NULL /\ camera_data # NULL_DATA /\ camera_driver_t(camera).start
       THEN \E r \in BOOLEAN :
                /\ ret' = r
                /\ calls' = <<Call("start", camera, camera_data, camera_data)>>
       ELSE /\ ret' = FALSE
            /\ calls' = <<>>
    /\ Unchanged_by_dispatch

(* driver_camera_start that pushes the message outside the handle check. *)
driver_camera_start_message_outside ==
    /\ ~failed
    /\ op' = "start"
    /\ IF camera_allow
       THEN IF camera # NULL /\ camera_data # NULL_DATA /\ camera_driver_t(camera).start
            THEN \E r \in BOOLEAN :
                     /\ ret' = r
                     /\ calls' = <<Call("start", camera, camera_data, camera_data)>>
            ELSE /\ ret' = FALSE
                 /\ calls' = <<>>
       ELSE /\ ret' = FALSE
            /\ calls' = <<Call(Disabled_msg, NULL, NULL_DATA, camera_data)>>
    /\ Unchanged_by_dispatch

driver_camera_start ==
    /\ ~failed
    /\ op' = "start"
    /\ IF camera # NULL /\ camera_data # NULL_DATA /\ camera_driver_t(camera).start
       THEN IF camera_allow
            THEN \E r \in BOOLEAN :
                     /\ ret' = r
                     /\ calls' = <<Call("start", camera, camera_data, camera_data)>>
            ELSE /\ ret' = FALSE
                 /\ calls' = <<Call(Disabled_msg, NULL, NULL_DATA, camera_data)>>
       ELSE /\ ret' = FALSE
            /\ calls' = <<>>
    /\ Unchanged_by_dispatch

(* driver_camera_stop that does not check for a live handle. *)
driver_camera_stop_unchecked ==
    /\ ~failed
    /\ op' = "stop"
    /\ ret' = FALSE
    /\ IF camera # NULL /\ camera_driver_t(camera).stop
       THEN calls' = <<Call("stop", camera, camera_data, camera_data)>>
       ELSE calls' = <<>>
    /\ Unchanged_by_dispatch

driver_camera_stop ==
    /\ ~failed
    /\ op' = "stop"
    /\ ret' = FALSE
    /\ IF camera # NULL /\ camera_driver_t(camera).stop /\ camera_data # NULL_DATA
       THEN calls' = <<Call("stop", camera, camera_data, camera_data)>>
       ELSE calls' = <<>>
    /\ Unchanged_by_dispatch

driver_camera_poll ==
    /\ ~failed
    /\ op' = "poll"
    /\ ret' = FALSE
    /\ IF camera # NULL /\ camera_driver_t(camera).poll /\ camera_data # NULL_DATA
       THEN calls' = <<Call("poll", camera, camera_data, camera_data)>>
       ELSE calls' = <<>>
    /\ Unchanged_by_dispatch

Next ==
    \/ find_camera_driver_op
    \/ init_camera
    \/ uninit_camera
    \/ driver_camera_start
    \/ driver_camera_stop
    \/ driver_camera_poll

Spec == Init /\ [][Next]_vars

(* Start-up with the device and size settings and the capability defaults  *)
(* varied, in a build with the V4L2 backend selected by name.              *)
InitArgs ==
    /\ have = {"HAVE_V4L2"}
    /\ camera_driver_setting = "video4linux2"
    /\ camera_allow = TRUE
    /\ cb_initialized = TRUE
    /\ cb_deinitialized = TRUE
    /\ camera_device \in {"", "/dev/video1"}
    /\ camera_width \in {0, 320}
    /\ camera_height \in {0, 240}
    /\ cb_caps \in {1, 2, 3}
    /\ cb_width \in {0, 640}
    /\ cb_height \in {0, 480}
    /\ camera_active = TRUE
    /\ CameraStart
    /\ GlIdle

SpecArgs == InitArgs /\ [][Next]_vars

(***************************************************************************)
(* gl.c: the GLFW/OpenGL video driver                                      *)
(***************************************************************************)
(* Handles gl_init may return in one run. *)
MaxCreated == 2

(* Times the caller may call gl_free on one handle. *)
MaxDestroys == 2

(* The camera left alone while the video driver runs. *)
CameraIdle ==
    /\ have = {}
    /\ camera_driver_setting = ""
    /\ camera_allow = FALSE
    /\ cb_initialized = FALSE
    /\ cb_deinitialized = FALSE
    /\ camera_device = ""
    /\ camera_width = 0
    /\ camera_height = 0
    /\ cb_caps = 0
    /\ cb_width = 0
    /\ cb_height = 0
    /\ camera_active = FALSE
    /\ CameraStart

(* The resources a library call releases, in the order it releases them.   *)
(* glfwTerminate closes the window and then ends the GLFW session.         *)
Releases(call) ==
    CASE call = "free"             -> <<"gl_t">>
      [] call = "cgDestroyContext" -> <<"cgCtx">>
      [] call = "glDeleteTextures" -> <<"texture">>
      [] call = "glfwTerminate"    -> <<"window", "glfw">>
      [] OTHER                     -> <<>>

(* The resource a library call acquires. *)
Acquires(call) ==
    CASE call = "malloc"           -> <<"gl_t">>
      [] call = "glfwInit"         -> <<"glfw">>
      [] call = "glfwOpenWindow"   -> <<"window">>
      [] call = "glGenTextures"    -> <<"texture">>
      [] call = "cgCreateContext"  -> <<"cgCtx">>
      [] OTHER                     -> <<>>

(* h without its last occurrence of resource r; h itself when r is not held. *)
RECURSIVE Drop(_, _)
Drop(h, r) ==
    IF h = <<>> THEN <<>>
    ELSE IF h[Len(h)] = r THEN SubSeq(h, 1, Len(h) - 1)
    ELSE Drop(SubSeq(h, 1, Len(h) - 1), r) \o <<h[Len(h)]>>

RECURSIVE DropAll(_, _)
DropAll(h, rs) ==
    IF rs = <<>> THEN h ELSE DropAll(Drop(h, Head(rs)), Tail(rs))

(* The resources held after a sequence of library calls. *)
RECURSIVE HeldAfter(_, _)
HeldAfter(h, cs) ==
    IF cs = <<>> THEN h
    ELSE HeldAfter(DropAll(h, Releases(Head(cs))) \o Acquires(Head(cs)), Tail(cs))

(* The places where gl_init can fail. *)
GlInitOutcomes ==
    {"ok", "malloc", "window"}
        \cup (IF have_cg THEN {"cgctx", "cgprofile", "cgprogram"} ELSE {})

(* The acquiring and releasing library calls gl_init makes, by outcome. *)
gl_init_calls(outcome) ==
    IF outcome = "malloc" THEN <<>>
    ELSE <<"malloc", "glfwInit">> \o
         (IF outcome = "window" THEN <<"glfwTerminate">>
          ELSE <<"glfwOpenWindow", "glGenTextures">> \o
               (IF ~have_cg THEN <<>>
                ELSE IF outcome = "cgctx" THEN <<"free">>
                ELSE IF outcome \in {"cgprofile", "cgprogram"}
                     THEN <<"cgCreateContext", "free">>
                ELSE <<"cgCreateContext">>))

gl_init ==
    /\ gl_state \in {"none", "destroyed"}
    /\ n_created < MaxCreated
    /\ gl_op' = "gl_init"
    /\ \E outcome \in GlInitOutcomes :
          /\ gl_calls' = gl_init_calls(outcome)
          /\ held' = HeldAfter(held, gl_init_calls(outcome))
          /\ IF outcome = "malloc"
             THEN UNCHANGED <<keep_aspect, gl, swap_interval>>
             ELSE /\ keep_aspect' = video_force_aspect
                  /\ IF outcome = "window"
                     THEN /\ gl' = [gl EXCEPT !.tex_filter =
                                       IF video_smooth THEN "GL_LINEAR" ELSE "GL_NEAREST"]
                          /\ UNCHANGED swap_interval
                     ELSE /\ swap_interval' = IF video_vsync THEN 1 ELSE 0
                          /\ gl' = [vsync |-> video_vsync,
                                    tex_filter |->
                                       IF video_smooth THEN "GL_LINEAR" ELSE "GL_NEAREST"]
          /\ gl_state' = IF outcome = "ok" THEN "ready" ELSE "failed"
          /\ n_created' = IF outcome = "ok" THEN n_created + 1 ELSE n_created
          /\ title' = IF outcome \in {"malloc", "window"}
                       THEN title
                       ELSE Title("SSNES", NoFps, 0)
    /\ nonblock' = "none"
    /\ submitted' = FALSE
    /\ destroys' = 0
    /\ UNCHANGED <<glconfig, viewport, surface, frames, tv, now>>
    /\ UNCHANGED camvars

(* The releasing library calls of gl_free. *)
(* A gl_free that ends the GLFW session before it deletes the texture. *)
gl_free_calls_terminate_first ==
    (IF have_cg THEN <<"cgDestroyContext">> ELSE <<>>)
        \o <<"glfwTerminate", "glDeleteTextures">>

gl_free_calls ==
    (IF have_cg THEN <<"cgDestroyContext">> ELSE <<>>)
        \o <<"glDeleteTextures", "glfwTerminate">>

(* gl_free has no guard: the caller may pass it a handle it already        *)
(* destroyed, whose gl_t is still allocated.                               *)
gl_free ==
    /\ gl_state \in {"ready", "destroyed"}
    /\ destroys < MaxDestroys
    /\ destroys' = destroys + 1
    /\ gl_op' = "gl_free"
    /\ gl_calls' = gl_free_calls
    /\ held' = HeldAfter(held, gl_free_calls)
    /\ gl_state' = "destroyed"
    /\ UNCHANGED <<glconfig, keep_aspect, gl, swap_interval, viewport, surface, frames,
                   tv, now, title, n_created, nonblock, submitted>>
    /\ UNCHANGED camvars

(* The swap interval after gl_set_nonblock_state(state). *)
(* A gl_set_nonblock_state that does not look at gl->vsync. *)
nonblock_swap_interval_unconditional(state) == IF state THEN 0 ELSE 1

nonblock_swap_interval(state) ==
    IF gl.vsync THEN (IF state THEN 0 ELSE 1) ELSE swap_interval

gl_set_nonblock_state ==
    /\ gl_state = "ready"
    /\ gl_op' = "gl_set_nonblock_state"
    /\ gl_calls' = <<>>
    /\ \E state \in BOOLEAN :
          /\ swap_interval' = nonblock_swap_interval(state)
          /\ nonblock' = IF state THEN "true" ELSE "false"
    /\ UNCHANGED <<glconfig, keep_aspect, gl_state, gl, held, viewport, surface, frames,
                   tv, now, title, n_created, submitted, destroys>>
    /\ UNCHANGED camvars

(***************************************************************************)
(* resize                                                                  *)
(*                                                                         *)
(* The floating-point values are modelled as exact fractions.  delta is a  *)
(* float: rounding leaves it exact, just above or just below the exact     *)
(* fraction (err = 0, 1, -1), which shows in the conversion to int of a    *)
(* product whose exact value is a whole number.                            *)
(***************************************************************************)
(* The surface sizes the window system reports. *)
Widths == {4, 600, 667, 800, 1333, 1335, 1920, 1921}
Heights == {3, 500, 600, 1000, 1200}

(* (int)(aspect * 1000) for the aspect num/den. *)
aspect_x1000(num, den) == (1000 * num) \div den

(* Conversion to int of num/den > 0, computed with rounding error of sign err. *)
to_int(num, den, err) ==
    IF num % den = 0 /\ err < 0 THEN (num \div den) - 1 ELSE num \div den

(* A resize that puts the letterboxed picture at the origin. *)
resize_viewport_uncentred(width, height, err) ==
    IF keep_aspect
    THEN IF aspect_x1000(width, height) > aspect_x1000(4, 3)
         THEN <<0, 0, to_int(2 * width * 4 * height, 6 * width, err), height>>
         ELSE IF aspect_x1000(width, height) < aspect_x1000(4, 3)
         THEN <<0, 0, width, to_int(2 * height * 3 * width, 8 * height, err)>>
         ELSE <<0, 0, width, height>>
    ELSE <<0, 0, width, height>>

(* The arguments of the glViewport call of resize(width, height). *)
resize_viewport(width, height, err) ==
    IF keep_aspect
    THEN IF aspect_x1000(width, height) > aspect_x1000(4, 3)
         THEN \* delta = (desired/device - 1)/2 + 0.5 = 4*height / (6*width)
              LET delta == [num |-> 4 * height, den |-> 6 * width]
              IN  << to_int(width * (delta.den - 2 * delta.num), 2 * delta.den, -err),
                     0,
                     to_int(2 * width * delta.num, delta.den, err),
                     height >>
         ELSE IF aspect_x1000(width, height) < aspect_x1000(4, 3)
         THEN \* delta = (device/desired - 1)/2 + 0.5 = 3*width / (8*height)
              LET delta == [num |-> 3 * width, den |-> 8 * height]
              IN  << 0,
                     to_int(height * (delta.den - 2 * delta.num), 2 * delta.den, -err),
                     width,
                     to_int(2 * height * delta.num, delta.den, err) >>
         ELSE <<0, 0, width, height>>
    ELSE <<0, 0, width, height>>

(* The window size callback, called by GLFW while the window is open. *)
resize ==
    /\ gl_state = "ready"
    /\ gl_op' = "resize"
    /\ gl_calls' = <<>>
    /\ \E width \in Widths, height \in Heights, err \in {-1, 0, 1} :
          /\ surface' = <<width, height>>
          /\ viewport' = resize_viewport(width, height, err)
    /\ UNCHANGED <<glconfig, keep_aspect, gl_state, gl, held, swap_interval, frames,
                   tv, now, title, n_created, nonblock, submitted, destroys>>
    /\ UNCHANGED camvars

(* Start-up of the video driver: any build and video configuration. *)
InitGL ==
    /\ have_cg \in BOOLEAN
    /\ video_force_aspect \in BOOLEAN
    /\ video_smooth \in BOOLEAN
    /\ video_vsync \in BOOLEAN
    /\ GlStart
    /\ CameraIdle

NextGL ==
    \/ gl_init
    \/ gl_free
    \/ gl_set_nonblock_state
    \/ resize

SpecGL == InitGL /\ [][NextGL]_vars

(***************************************************************************)
(* Frame submission and the FPS counter (show_fps, tv_to_fps, gl_frame).   *)
(***************************************************************************)
(* Frames submitted in one run. *)
MaxFrames == 361

(* Seconds the wall clock may reach in one run. *)
MaxClock == 2

(* Microseconds in a second, and the frames in one sample window. *)
USEC_PER_SEC == 1000000
SampleFrames == 180

(* Microseconds by which the wall clock advances in one step. *)
TickUsecs == {500000}

timeval(sec, usec) == [tv_sec |-> sec, tv_usec |-> usec]

(* gettimeofday, usec microseconds later than t. *)
tv_add(t, usec) ==
    IF t.tv_usec + usec >= USEC_PER_SEC
    THEN timeval(t.tv_sec + 1, t.tv_usec + usec - USEC_PER_SEC)
    ELSE timeval(t.tv_sec, t.tv_usec + usec)

(* frames / time, with time in seconds = den / 1000000: the quotient is    *)
(* kept as a fraction, a zero den being the division by 0.0.               *)
tv_to_fps(old_tv, new_tv, count) ==
    [num |-> count * USEC_PER_SEC,
     den |-> (new_tv.tv_sec - old_tv.tv_sec) * USEC_PER_SEC
                + (new_tv.tv_usec - old_tv.tv_usec)]

show_fps_sample_from_zero == (frames % SampleFrames) = 0

(* The condition under which show_fps publishes a sample. *)
show_fps_sample == (frames % SampleFrames) = 0 /\ frames > 0

gl_frame ==
    /\ gl_state = "ready"
    /\ frames < MaxFrames
    /\ gl_op' = "gl_frame"
    /\ submitted' = TRUE
    /\ frames' = frames + 1
    /\ IF show_fps_sample
       THEN \E d \in {0} \cup TickUsecs :
               LET new_tv == now
                   tmp_tv == IF frames = 0 THEN now ELSE tv
                   fps == tv_to_fps(tmp_tv, new_tv, SampleFrames)
               IN  /\ tv_add(now, d).tv_sec <= MaxClock
                   /\ now' = tv_add(now, d)
                   /\ tv' = tv_add(now, d)
                   /\ title' = Title("fps", fps, frames)
                   /\ gl_calls' = <<"glfwSetWindowTitle", "glfwSwapBuffers">>
       ELSE /\ tv' = IF frames = 0 THEN now ELSE tv
            /\ gl_calls' = <<"glfwSwapBuffers">>
            /\ UNCHANGED <<now, title>>
    /\ UNCHANGED <<glconfig, keep_aspect, gl_state, gl, held, swap_interval,
                   viewport, surface, n_created, nonblock, destroys>>
    /\ UNCHANGED camvars

(* The wall clock read by gettimeofday advances. *)
clock_tick ==
    /\ \E d \in TickUsecs :
          /\ tv_add(now, d).tv_sec <= MaxClock
          /\ now' = tv_add(now, d)
    /\ UNCHANGED <<glconfig, keep_aspect, gl_state, gl, held, swap_interval,
                   viewport, surface, frames, tv, title, gl_op, gl_calls,
                   n_created, nonblock, submitted, destroys>>
    /\ UNCHANGED camvars

InitFrames == GlIdle /\ CameraIdle

NextFrames ==
    \/ gl_init
    \/ gl_frame
    \/ gl_free
    \/ clock_tick

SpecFrames == InitFrames /\ [][NextFrames]_vars

(***************************************************************************)
(* Properties                                                              *)
(***************************************************************************)
BackendFns == {"init", "free", "start", "stop", "poll"}

(* C1: init_camera called while a handle is live is a no-op: it calls no   *)
(* backend init (no handle is handed out), sends no notification, and      *)
(* leaves the live handle and the selected driver as they were; so of two  *)
(* inits with no uninit between them only the first, successful one calls  *)
(* the backend.                                                            *)
C1_DoubleInitIsNoop ==
    [][(op' = "init" /\ camera_data # NULL_DATA)
        => /\ calls' = <<>>
           /\ camera_data' = camera_data
           /\ camera' = camera
           /\ n_alloc' = n_alloc
           /\ lifecycle' = lifecycle]_vars

C1_Witness ==
    op = "init" /\ calls = <<>> /\ camera_data # NULL_DATA /\ n_alloc = 1

(* C2: when uninit_camera runs with a live handle and a registered         *)
(* "deinitialized" callback, the callback is called first, while           *)
(* driver.camera_data still holds the handle, the backend free is called   *)
(* second with that handle, and the handle is cleared after both; no       *)
(* function ever calls free before the notification.                       *)
C2_NotifyBeforeFree ==
    [][/\ (op' = "uninit" /\ camera_data # NULL_DATA /\ cb_deinitialized)
            => (/\ calls' = << Call("deinitialized", NULL, NULL_DATA, camera_data),
                               Call("free", camera, camera_data, camera_data) >>
                /\ camera_data' = NULL_DATA)
       /\ (cb_deinitialized
            => \A i \in 1..Len(calls') :
                  calls'[i].fn = "free"
                     => \E j \in 1..(i - 1) : calls'[j].fn = "deinitialized")]_vars

C2_Witness ==
    /\ op = "uninit" /\ Len(calls) = 2
    /\ calls[1].fn = "deinitialized" /\ calls[1].seen # NULL_DATA
    /\ calls[2].fn = "free" /\ calls[2].data = calls[1].seen
    /\ camera_data = NULL_DATA

(* C3: with the permission flag off and a live handle, driver_camera_start *)
(* returns false, does not call the backend start and pushes the           *)
(* "explicitly disabled" message; with no handle it returns false and      *)
(* pushes no message, so the two failures can be told apart.               *)
C3_DisabledIsDistinct ==
    /\ (op = "start" /\ ~camera_allow /\ camera_data # NULL_DATA)
          => /\ ret = FALSE
             /\ "start" \notin Fns(calls)
             /\ Disabled_msg \in Fns(calls)
    /\ (op = "start" /\ camera_data = NULL_DATA)
          => /\ ret = FALSE
             /\ Disabled_msg \notin Fns(calls)

C3_Witness ==
    /\ op = "start" /\ ~camera_allow /\ camera_data # NULL_DATA
    /\ calls = <<Call(Disabled_msg, NULL, NULL_DATA, camera_data)>>

Entries == {camera_drivers[i] : i \in 1..(Len(camera_drivers) - 1)}

(* C5: find_camera_driver selects, for a configured name that is the       *)
(* identifier of a registry entry, that entry; for every other name, the   *)
(* empty one included, registry entry 0; and it leaves the handle alone.   *)
C5_Selection ==
    [][op' = "find"
        => /\ camera_data' = camera_data
           /\ IF \E e \in Entries : camera_driver_t(e).ident = camera_driver_setting
              THEN /\ camera' \in Entries
                   /\ camera_driver_t(camera').ident = camera_driver_setting
              ELSE camera' = camera_drivers[1]]_vars

C5_Witness ==
    /\ op = "find"
    /\ camera_driver_setting \in {"", "bogus", "android"}
    /\ "ANDROID" \notin have
    /\ camera = "camera_v4l2"
    /\ camera_data # NULL_DATA

(* C6: in every build the registry has an entry before the sentinel, its   *)
(* last entry before the sentinel is the null driver, entry 0 is a driver, *)
(* and rarch_fail is never reached.                                        *)
C6_RegistryEndsWithNull ==
    /\ Len(camera_drivers) >= 2
    /\ camera_drivers[Len(camera_drivers)] = NULL
    /\ camera_drivers[Len(camera_drivers) - 1] = "camera_null"
    /\ \A i \in 1..(Len(camera_drivers) - 1) : camera_drivers[i] # NULL
    /\ camera_driver_find_handle(0) # NULL
    /\ ~failed
    /\ (op = "find" \/ "init" \in Fns(calls)) => camera # NULL

C6_Witness ==
    /\ have = {}
    /\ op = "find"
    /\ camera_driver_setting = ""
    /\ camera = "camera_null"

(* C7 as stated: init_camera calls the "initialized" callback exactly when *)
(* the backend init succeeded; a failed init sends no notification.        *)
C7_InitializedOnlyOnSuccess ==
    (op = "init" /\ cb_initialized)
        => (("initialized" \in Fns(calls))
               <=> (\E i \in 1..Len(calls) :
                       calls[i].fn = "init" /\ calls[i].data # NULL_DATA))

(* C8: after a failed backend init no handle is live and the camera is     *)
(* marked inactive; from that state start returns false, start, stop, poll *)
(* and uninit call no backend operation, and init calls the backend init   *)
(* again.                                                                  *)
C8_FailedInitRecoverable ==
    [][/\ (lifecycle' = "InitFailed")
            => (camera_data' = NULL_DATA /\ ~camera_active')
       /\ (lifecycle = "InitFailed")
            => /\ (op' = "start") => (ret' = FALSE)
               /\ (op' \in {"start", "stop", "poll", "uninit"})
                     => (Fns(calls') \cap BackendFns = {})
               /\ (op' = "init")
                     => (calls' # <<>> /\ calls'[1].fn = "init")]_vars

C8_Witness ==
    /\ lifecycle = "InitFailed" /\ camera # NULL /\ camera_data = NULL_DATA
    /\ op = "start" /\ camera_allow /\ ret = FALSE /\ calls = <<>>

(* C9: the backend start, stop and poll are called only with a live        *)
(* handle: the one driver.camera_data holds, handed out by the latest      *)
(* successful init and not freed, and on the selected driver; with no      *)
(* handle, stop and poll call nothing.                                     *)
C9_DispatchOnlyOnLiveHandle ==
    /\ \A i \in 1..Len(calls) :
          calls[i].fn \in {"start", "stop", "poll"}
             => /\ calls[i].data # NULL_DATA
                /\ calls[i].data = camera_data
                /\ calls[i].data = n_alloc
                /\ calls[i].data \notin freed
                /\ calls[i].drv = camera
                /\ lifecycle = "Active"
    /\ (op \in {"stop", "poll"} /\ camera_data = NULL_DATA) => calls = <<>>

C9_Witness ==
    /\ op = "poll"
    /\ calls = <<Call("poll", camera, 2, 2)>>
    /\ freed = {1}

(* C10: uninit_camera with no live handle calls neither the                *)
(* "deinitialized" callback nor the backend free; after any uninit no      *)
(* handle is live, so a second uninit in a row calls nothing, and an init  *)
(* that follows an uninit calls the backend init, which hands out a handle *)
(* that was not freed.                                                     *)
C10_UninitIdempotent ==
    [][/\ (op' = "uninit") => (camera_data' = NULL_DATA)
       /\ (op' = "uninit" /\ camera_data = NULL_DATA)
             => (calls' = <<>> /\ freed' = freed)
       /\ (op = "uninit" /\ op' = "uninit") => (calls' = <<>>)
       /\ (op = "uninit" /\ op' = "init")
             => /\ calls' # <<>>
                /\ calls'[1].fn = "init"
                /\ calls'[1].data \notin freed]_vars

C10_Witness ==
    /\ op = "uninit" /\ calls = <<>>
    /\ camera = NULL /\ n_alloc = 0

(* C17: the backend init is called with the configured width when it is    *)
(* non-zero and the capability width otherwise, the height likewise, the   *)
(* configured device when it is non-empty and no device otherwise, and the *)
(* capability flags as they are.                                           *)
C17_InitArguments ==
    ("init" \in Fns(calls))
        => /\ (camera_width # 0) => (init_args.width = camera_width)
           /\ (camera_width = 0) => (init_args.width = cb_width)
           /\ (camera_height # 0) => (init_args.height = camera_height)
           /\ (camera_height = 0) => (init_args.height = cb_height)
           /\ (camera_device # "") => (init_args.device = camera_device)
           /\ (camera_device = "") => (init_args.device = NULL)
           /\ init_args.caps = cb_caps

C17_Witness ==
    /\ "init" \in Fns(calls)
    /\ camera_width = 320 /\ cb_width = 640 /\ init_args.width = 320
    /\ camera_height = 0 /\ init_args.height = 480
    /\ camera_device = "" /\ init_args.device = NULL
    /\ init_args.caps = 3

(* C18: the handles handed out by successful inits and not yet freed are   *)
(* exactly the live handle, if any: at most one handle is live, it is the  *)
(* latest one handed out and it has a selected driver; a free is only ever *)
(* called on the live handle, which was not freed before.                  *)
C18_OneLiveHandle ==
    [][/\ freed' = (1..n_alloc') \ {camera_data'}
       /\ n_alloc' - Cardinality(freed') = (IF camera_data' # NULL_DATA THEN 1 ELSE 0)
       /\ (camera_data' # NULL_DATA) => (camera' # NULL /\ camera_data' = n_alloc')
       /\ \A i \in 1..Len(calls') :
             (calls'[i].fn = "free")
                => /\ calls'[i].data = camera_data
                   /\ calls'[i].data # NULL_DATA
                   /\ calls'[i].data \notin freed
                   /\ camera_driver_t(calls'[i].drv).free]_vars

C18_Witness ==
    /\ op = "uninit" /\ "free" \in Fns(calls)
    /\ n_alloc = 2 /\ freed = {1, 2} /\ camera_data = NULL_DATA

(* C19: with both callbacks registered, a "deinitialized" notification is  *)
(* sent only when an "initialized" notification was sent since the         *)
(* previous "deinitialized" one (or since start-up).                       *)
C19_DeinitializedFollowsInitialized ==
    [][(cb_initialized /\ cb_deinitialized /\ "deinitialized" \in Fns(calls'))
          => (pending_initialized /\ ~pending_initialized')]_vars

C19_Witness ==
    /\ cb_initialized /\ cb_deinitialized
    /\ op = "uninit" /\ "deinitialized" \in Fns(calls)
    /\ ~pending_initialized /\ n_alloc = 2

(* C11: on a live handle the stored vsync preference is the one given at   *)
(* creation, and the swap interval is 1 exactly when vsync was requested   *)
(* at creation and the latest gl_set_nonblock_state call, if any, passed   *)
(* false; otherwise it is 0, so without vsync it never changes.            *)
C11_SwapInterval ==
    (gl_state = "ready")
        => /\ gl.vsync = video_vsync
           /\ swap_interval = (IF video_vsync /\ nonblock # "true" THEN 1 ELSE 0)

C11_Witness ==
    /\ gl_state = "ready" /\ video_vsync
    /\ gl_op = "gl_set_nonblock_state" /\ nonblock = "false"
    /\ swap_interval = 1 /\ gl.vsync

(* How the surface compares with 4:3 to three decimal digits. *)
Wider(width, height) == 1000 * width >= 1334 * height
Narrower(width, height) == 1000 * width < 1333 * height

(* C12 as stated: with aspect lock on, a surface equal to 4:3 to three     *)
(* decimal digits gets the full surface; a wider one gets full height,     *)
(* origin-x > 0, a smaller width and is centred exactly; a narrower one    *)
(* gets full width, origin-y > 0, a smaller height and is centred exactly; *)
(* with aspect lock off the viewport is the full surface.                  *)
C12_Letterbox ==
    (gl_op = "resize")
        => LET width == surface[1]
               height == surface[2]
               x == viewport[1]
               y == viewport[2]
               w == viewport[3]
               h == viewport[4]
           IN  IF ~keep_aspect THEN viewport = <<0, 0, width, height>>
               ELSE IF Wider(width, height)
               THEN h = height /\ x > 0 /\ w < width /\ 2 * x + w = width
               ELSE IF Narrower(width, height)
               THEN w = width /\ y > 0 /\ h < height /\ 2 * y + h = height
               ELSE viewport = <<0, 0, width, height>>

(* C12 as amended: as above, but the origin of a letterboxed viewport is   *)
(* only >= 0 and, both values being truncated to integers, the viewport is *)
(* centred to within two pixels: width - 2 <= 2*origin-x + viewport width  *)
(* <= width for a wider surface, and likewise vertically for a narrower    *)
(* one; the other origin is 0.  800x600 gets the full surface, 1920x600    *)
(* origin-x 559 or 560, 600x1200 origin-y 374 or 375.                      *)
C12_LetterboxTruncated ==
    (gl_op = "resize")
        => LET width == surface[1]
               height == surface[2]
               x == viewport[1]
               y == viewport[2]
               w == viewport[3]
               h == viewport[4]
           IN  /\ IF ~keep_aspect THEN viewport = <<0, 0, width, height>>
                  ELSE IF Wider(width, height)
                  THEN /\ y = 0 /\ h = height /\ x >= 0 /\ w < width
                       /\ width - 2 <= 2 * x + w /\ 2 * x + w <= width
                  ELSE IF Narrower(width, height)
                  THEN /\ x = 0 /\ w = width /\ y >= 0 /\ h < height
                       /\ height - 2 <= 2 * y + h /\ 2 * y + h <= height
                  ELSE viewport = <<0, 0, width, height>>
               /\ (keep_aspect /\ surface = <<800, 600>>)
                     => viewport = <<0, 0, 800, 600>>
               /\ (keep_aspect /\ surface = <<1920, 600>>)
                     => (x \in {559, 560} /\ w \in {799, 800})
               /\ (keep_aspect /\ surface = <<600, 1200>>)
                     => (y \in {374, 375} /\ h \in {449, 450})

C12_Witness ==
    /\ gl_op = "resize" /\ keep_aspect
    /\ surface = <<1335, 1000>>
    /\ viewport = <<0, 0, 1333, 1000>>

(* C14 as stated: gl_free on a handle that was already destroyed makes no  *)
(* releasing library call.                                                 *)
C14_DestroyIdempotent ==
    (gl_op = "gl_free" /\ destroys >= 2) => (gl_calls = <<>>)

(* The resources released by a sequence of library calls, in order. *)
RECURSIVE Released(_)
Released(cs) == IF cs = <<>> THEN <<>> ELSE Releases(Head(cs)) \o Released(Tail(cs))

Reverse(q) == [i \in 1..Len(q) |-> q[Len(q) + 1 - i]]

IsPipelineResource(r) == r \in {"cgCtx", "texture", "window", "glfw"}

(* C15: gl_free on a live handle releases the shader context (when the     *)
(* build has one), the texture, the window and the GLFW session, each      *)
(* once, in the reverse of the order in which gl_init acquired them, and   *)
(* none of them is held afterwards.  (The gl_t memory is not among them:   *)
(* gl_free does not release it.)                                           *)
C15_ReleaseInReverse ==
    [][(gl_op' = "gl_free" /\ gl_state = "ready")
          => /\ Released(gl_calls') = Reverse(SelectSeq(held, IsPipelineResource))
             /\ SelectSeq(held', IsPipelineResource) = <<>>
             /\ Len(SelectSeq(held, IsPipelineResource)) = (IF have_cg THEN 4 ELSE 3)]_vars

C15_Witness ==
    /\ gl_op = "gl_free" /\ destroys = 1 /\ have_cg
    /\ gl_calls = <<"cgDestroyContext", "glDeleteTextures", "glfwTerminate">>
    /\ SelectSeq(held, IsPipelineResource) = <<>>

(* C20 as stated: a gl_init that fails returns no handle and holds nothing *)
(* it acquired: what is held is what was held before the call.             *)
C20_FailedInitHoldsNothing ==
    [][(gl_op' = "gl_init" /\ gl_state' = "failed") => (held' = held)]_vars

Usec(t) == t.tv_sec * USEC_PER_SEC + t.tv_usec

SetsTitle(cs) == \E i \in 1..Len(cs) : cs[i] = "glfwSetWindowTitle"

(* C13: every gl_frame call counts one frame; it publishes an FPS sample   *)
(* only when the frames counted before it are a non-zero multiple of 180,  *)
(* and the sample is 180 / (seconds from the window start to this call),   *)
(* the window start being the timestamp stored at the previous sample or   *)
(* at frame 0; the stored timestamp changes at no other call.              *)
C13_FpsSample ==
    [][(frames' # frames \/ tv' # tv \/ title'.text # title.text
           \/ title'.frames # title.frames)
          => \/ /\ gl_op' = "gl_init"
                /\ title' = Title("SSNES", NoFps, 0)
                /\ frames' = frames /\ tv' = tv
             \/ /\ gl_op' = "gl_frame"
                /\ frames' = frames + 1
                /\ IF SetsTitle(gl_calls')
                   THEN /\ frames > 0
                        /\ frames % 180 = 0
                        /\ title'.text = "fps"
                        /\ title'.frames = frames
                        /\ title'.fps = [num |-> 180 * 1000000,
                                         den |-> Usec(now) - Usec(tv)]
                        /\ Usec(tv') >= Usec(now)
                        /\ tv' = now'
                   ELSE /\ title' = title
                        /\ tv' = (IF frames = 0 THEN now ELSE tv)]_vars

C13_Witness ==
    /\ gl_op = "gl_frame" /\ frames = 361
    /\ title = Title("fps", [num |-> 180000000, den |-> 500000], 360)
    /\ tv = timeval(2, 0)

(* C16 as stated: a handle that has not yet been given a frame has a       *)
(* frame counter of 0, also when it was created after another handle was   *)
(* destroyed.                                                              *)
C16_TimingResetAtCreation ==
    (gl_state = "ready" /\ ~submitted) => (frames = 0)

====
